---- MODULE Spec2Model ----
(***************************************************************************)
(* Model of the speaker-similarity and loss core of utils.py               *)
(* (calculate_centroid_*, calculate_similarity*, combine_similarity,       *)
(* get_similarity, get_similarity_eva, get_contrast_loss,                  *)
(* get_softmax_loss).                                                      *)
(*                                                                         *)
(* Tensors are nested sequences t[n][m][d].  A tensor element is an exact  *)
(* rational <<num, den>> in lowest terms with den > 0; den = 0 encodes the *)
(* IEEE results of a division by zero (<<0,0>> is NaN, <<1,0>> is +inf,    *)
(* <<-1,0>> is -inf).  A cosine similarity is <<sign, c2>> where c2 is the *)
(* rational square of the cosine, so that it is an exact canonical value.  *)
(*                                                                         *)
(* The caller's objects live in `heap`, a map from object names to the     *)
(* values they hold; `ret` is the reference the last call returned, so     *)
(* that in-place mutation and aliasing are visible.  `err` is the error    *)
(* the last call raised, `last` names the last call and `calls` counts     *)
(* the get_similarity calls made.                                          *)
(***************************************************************************)
EXTENDS Integers, Sequences, FiniteSets

VARIABLES heap, ret, err, last, calls

vars == <<heap, ret, err, last, calls>>

\* ------------------------------------------------------------------ bounds
MaxN == 2
MaxM == 3
MaxD == 2
MaxCells == 8
MaxCalls == 2
MaxWindows == 7
MaxWidth == 4
MaxSilence == 2
Vals == {-1, 0, 1}
EvaVals == {-1, 1}
Scores == {-1, 0, 1}

\* ------------------------------------------------------- exact arithmetic
None == <<>>

AbsInt(a) == IF a < 0 THEN -a ELSE a

SignInt(a) == IF a < 0 THEN -1 ELSE IF a = 0 THEN 0 ELSE 1

RECURSIVE Gcd(_, _)
Gcd(a, b) == IF b = 0 THEN a ELSE Gcd(b, a % b)

\* float results of a division by zero
NaN == <<0, 0>>

IsFinite(x) == x[2] # 0

\* a rational in lowest terms; a zero denominator gives NaN or +/-inf
Rat(n, d) ==
    IF d = 0 THEN <<SignInt(n), 0>>
    ELSE LET g == Gcd(AbsInt(n), AbsInt(d))
             s == IF d < 0 THEN -1 ELSE 1
         IN  <<(s * n) \div g, (s * d) \div g>>

RAdd(x, y) ==
    IF IsFinite(x) /\ IsFinite(y) THEN Rat(x[1] * y[2] + y[1] * x[2], x[2] * y[2])
    ELSE IF IsFinite(y) THEN x
    ELSE IF IsFinite(x) THEN y
    ELSE IF x = y THEN x ELSE NaN

RNeg(x) == <<-x[1], x[2]>>

RSub(x, y) == RAdd(x, RNeg(y))

RMul(x, y) ==
    IF IsFinite(x) /\ IsFinite(y) THEN Rat(x[1] * y[1], x[2] * y[2])
    ELSE <<SignInt(x[1]) * SignInt(y[1]), 0>>

\* tensor / python int
RDivInt(x, k) ==
    IF IsFinite(x) THEN Rat(x[1], x[2] * k)
    ELSE IF k = 0 THEN NaN ELSE <<x[1] * SignInt(k), 0>>

RECURSIVE RSum(_)
RSum(s) == IF s = <<>> THEN <<0, 1>> ELSE RAdd(s[1], RSum(Tail(s)))

\* sum over d <= n of x[d] * y[d]
RECURSIVE Dot(_, _, _)
Dot(x, y, n) == IF n = 0 THEN <<0, 1>> ELSE RAdd(RMul(x[n], y[n]), Dot(x, y, n - 1))

\* w12 / sqrt(n12) as <<sign, square>>; a zero norm gives 0 / eps = 0
CosineOf(w12, n12) ==
    IF n12[1] = 0 THEN <<0, <<0, 1>>>>
    ELSE <<SignInt(w12[1]), Rat(w12[1] * w12[1] * n12[2], w12[2] * w12[2] * n12[1])>>

\* F.cosine_similarity of two vectors: w12 / max(|x1| * |x2|, eps).  A NaN or
\* inf component gives NaN.
cosine_similarity(x1, x2) ==
    IF \E d \in 1..Len(x1) : ~IsFinite(x1[d]) \/ ~IsFinite(x2[d]) THEN <<0, NaN>>
    ELSE CosineOf(Dot(x1, x2, Len(x1)),
                  RMul(Dot(x1, x1, Len(x1)), Dot(x2, x2, Len(x1))))

\* ------------------------------------------------------------- centroids
calculate_centroid_include_self(embedding) ==
    LET N == Len(embedding)
        M == Len(embedding[1])
        feature_dim == Len(embedding[1][1])
    IN  [n \in 1..N |-> [d \in 1..feature_dim |->
            RDivInt(RSum([m \in 1..M |-> embedding[n][m][d]]), M)]]

\* mutant: the leave-one-out sum divided by M instead of M-1
calculate_centroid_exclude_self_div_M(embedding) ==
    LET N == Len(embedding)
        M == Len(embedding[1])
        feature_dim == Len(embedding[1][1])
        embedding_sum == [n \in 1..N |-> [d \in 1..feature_dim |->
                             RSum([m \in 1..M |-> embedding[n][m][d]])]]
    IN  [n \in 1..N |-> [m \in 1..M |-> [d \in 1..feature_dim |->
            RDivInt(RSub(embedding_sum[n][d], embedding[n][m][d]), M)]]]

calculate_centroid_exclude_self(embedding) ==
    LET N == Len(embedding)
        M == Len(embedding[1])
        feature_dim == Len(embedding[1][1])
        embedding_sum == [n \in 1..N |-> [d \in 1..feature_dim |->
                             RSum([m \in 1..M |-> embedding[n][m][d]])]]
    IN  [n \in 1..N |-> [m \in 1..M |-> [d \in 1..feature_dim |->
            RDivInt(RSub(embedding_sum[n][d], embedding[n][m][d]), M - 1)]]]

\* ------------------------------------------------------------ similarity
Ok(v) == [err |-> "none", val |-> v]

Raise(e) == [err |-> e, val |-> None]

\* mutant: the assertion compares the speaker counts only; a centroid of
\* another feature dimension is compared on the dimensions both have
calculate_similarity_assert_N_only(embedding, centroid_embedding) ==
    LET N == Len(embedding)
        M == Len(embedding[1])
        feature_dim == Len(embedding[1][1])
        N_c == Len(centroid_embedding)
        feature_dim_c == Len(centroid_embedding[1])
        both == 1..(IF feature_dim < feature_dim_c THEN feature_dim ELSE feature_dim_c)
    IN  IF ~(N = N_c) THEN Raise("AssertionError")
        ELSE Ok([j \in 1..N |-> [i \in 1..M |-> [k \in 1..N |->
                    cosine_similarity([d \in both |-> embedding[j][i][d]],
                                      [d \in both |-> centroid_embedding[k][d]])]]])

calculate_similarity(embedding, centroid_embedding) ==
    LET N == Len(embedding)
        M == Len(embedding[1])
        feature_dim == Len(embedding[1][1])
        N_c == Len(centroid_embedding)
        feature_dim_c == Len(centroid_embedding[1])
    IN  IF ~(N = N_c /\ feature_dim = feature_dim_c) THEN Raise("AssertionError")
        ELSE Ok([j \in 1..N |-> [i \in 1..M |-> [k \in 1..N |->
                    cosine_similarity(embedding[j][i], centroid_embedding[k])]]])

calculate_similarity_j_equal_k(embedding, centroid_embedding) ==
    LET N == Len(embedding)
        M == Len(embedding[1])
        feature_dim == Len(embedding[1][1])
        N_c == Len(centroid_embedding)
        M_c == Len(centroid_embedding[1])
        feature_dim_c == Len(centroid_embedding[1][1])
    IN  IF ~(N = N_c /\ M = M_c /\ feature_dim = feature_dim_c)
        THEN Raise("AssertionError")
        ELSE Ok([n \in 1..N |-> [m \in 1..M |->
                    cosine_similarity(embedding[n][m], centroid_embedding[n][m])]])

\* mutant: the assignment indexes [:, same_index, same_index]
combine_similarity_wrong_axis(similarity, similarity_j_equal_k) ==
    [similarity |->
        [n \in 1..Len(similarity) |-> [m \in 1..Len(similarity[n]) |->
            [k \in 1..Len(similarity[n][m]) |->
                IF k = m THEN similarity_j_equal_k[n][m]
                ELSE similarity[n][m][k]]]],
     aliased |-> TRUE]

\* The indexed assignment of line 67 writes into the tensor object passed as
\* `similarity`; line 68 returns that same object.  `similarity` is the value
\* the argument object holds after the call, `aliased` says that the returned
\* reference is the argument itself.
combine_similarity(similarity, similarity_j_equal_k) ==
    LET same_index == 1..Len(similarity)
    IN  [similarity |->
            [n \in same_index |-> [m \in 1..Len(similarity[n]) |->
                [k \in 1..Len(similarity[n][m]) |->
                    IF k = n THEN similarity_j_equal_k[n][m]
                    ELSE similarity[n][m][k]]]],
         aliased |-> TRUE]

\* mutant: the leave-one-out values are computed and never combined in
get_similarity_no_combine(embedding) ==
    LET similarity ==
            calculate_similarity(embedding, calculate_centroid_include_self(embedding))
    IN  [err |-> similarity.err, val |-> similarity.val, embedding |-> embedding]

\* mutant: the embedding is centred in place (embedding -= mean) on the way
get_similarity_centres_in_place(embedding) ==
    LET mean == calculate_centroid_include_self(embedding)
        r == get_similarity_no_combine(embedding)
    IN  [err |-> r.err, val |-> r.val,
         embedding |-> [n \in 1..Len(embedding) |-> [m \in 1..Len(embedding[n]) |->
                          [d \in 1..Len(embedding[n][m]) |->
                              RSub(embedding[n][m][d], mean[n][d])]]]]

\* `embedding` is the value the argument object holds after the call: no
\* statement of get_similarity or of its callees writes into it.
get_similarity(embedding) ==
    LET embedding_mean_include == calculate_centroid_include_self(embedding)
        embedding_mean_exclude == calculate_centroid_exclude_self(embedding)
        similarity == calculate_similarity(embedding, embedding_mean_include)
        similarity_j_equal_k ==
            calculate_similarity_j_equal_k(embedding, embedding_mean_exclude)
    IN  IF similarity.err # "none"
        THEN [err |-> similarity.err, val |-> None, embedding |-> embedding]
        ELSE IF similarity_j_equal_k.err # "none"
        THEN [err |-> similarity_j_equal_k.err, val |-> None, embedding |-> embedding]
        ELSE [err |-> "none",
              val |-> combine_similarity(similarity.val,
                                         similarity_j_equal_k.val).similarity,
              embedding |-> embedding]

\* mutant: the centroids are taken over the evaluation embeddings
get_similarity_eva_centroid_of_evaluation(enrollment_embedding, evaluation_embedding) ==
    calculate_similarity(evaluation_embedding,
                         calculate_centroid_include_self(evaluation_embedding))

get_similarity_eva(enrollment_embedding, evaluation_embedding) ==
    LET enrollment_embedding_mean ==
            calculate_centroid_include_self(enrollment_embedding)
    IN  calculate_similarity(evaluation_embedding, enrollment_embedding_mean)

\* ------------------------------------------------ vectorised similarity
get_centroids(embeddings) ==
    [n \in 1..Len(embeddings) |-> [d \in 1..Len(embeddings[n][1]) |->
        RDivInt(RSum([m \in 1..Len(embeddings[n]) |-> embeddings[n][m][d]]),
                Len(embeddings[n]))]]

get_utterance_centroids(embeddings) ==
    LET sum_centroids == [n \in 1..Len(embeddings) |->
                             <<[d \in 1..Len(embeddings[n][1]) |->
                                 RSum([m \in 1..Len(embeddings[n]) |->
                                          embeddings[n][m][d]])]>>]
        num_utterances == Len(embeddings[1]) - 1
    IN  [n \in 1..Len(embeddings) |-> [m \in 1..Len(embeddings[n]) |->
            [d \in 1..Len(embeddings[n][m]) |->
                RDivInt(RSub(sum_centroids[n][1][d], embeddings[n][m][d]),
                        num_utterances)]]]

\* t.view(rows * cols, -1) of a contiguous tensor (rows, cols, E): row-major
Flat(t) ==
    LET cols == Len(t[1])
    IN  [r \in 1..(Len(t) * cols) |-> t[((r - 1) \div cols) + 1][((r - 1) % cols) + 1]]

\* t.repeat((times, 1)) of a matrix: the whole matrix, `times` times over
Repeat(t, times) ==
    [r \in 1..(times * Len(t)) |-> t[((r - 1) % Len(t)) + 1]]

\* t.unsqueeze(1).repeat(1, times, 1) viewed as a matrix: each row `times`
\* times in a row
RepeatEach(t, times) ==
    [r \in 1..(Len(t) * times) |-> t[((r - 1) \div times) + 1]]

\* c + 1e-6: the cosine and the count of 1e-6 added to it; NaN absorbs
PlusEps(c) ==
    IF c[2] = NaN THEN [cos |-> c, eps |-> 0] ELSE [cos |-> c, eps |-> 1]

\* mutant: the flat embeddings are tiled as a whole, like the centroids
get_cossim_tiled_embeddings(embeddings, centroids) ==
    LET num_utterances == Len(embeddings[1])
        N == Len(embeddings)
        utterance_centroids_flat == Flat(get_utterance_centroids(embeddings))
        embeddings_flat == Flat(embeddings)
        cos_same == [r \in 1..Len(embeddings_flat) |->
                        cosine_similarity(embeddings_flat[r],
                                          utterance_centroids_flat[r])]
        centroids_expand == Repeat(centroids, num_utterances * N)
        embeddings_expand == Repeat(embeddings_flat, N)
        cos_diff == [r \in 1..Len(embeddings_expand) |->
                        cosine_similarity(embeddings_expand[r], centroids_expand[r])]
    IN  [j \in 1..N |-> [i \in 1..num_utterances |-> [k \in 1..Len(centroids) |->
            PlusEps(IF k = j THEN cos_same[(j - 1) * num_utterances + i]
                    ELSE cos_diff[((j - 1) * num_utterances + (i - 1))
                                      * Len(centroids) + k])]]]

\* cos_diff.view(N, M, N) puts element ((j-1) * M + (i-1)) * N + k of the flat
\* cosines at [j, i, k]; cos_same.view(N, M) puts element (j-1) * M + i at
\* [j, i], which line 227 writes to [j, i, j].
get_cossim(embeddings, centroids) ==
    LET num_utterances == Len(embeddings[1])
        N == Len(embeddings)
        utterance_centroids_flat == Flat(get_utterance_centroids(embeddings))
        embeddings_flat == Flat(embeddings)
        cos_same == [r \in 1..Len(embeddings_flat) |->
                        cosine_similarity(embeddings_flat[r],
                                          utterance_centroids_flat[r])]
        centroids_expand == Repeat(centroids, num_utterances * N)
        embeddings_expand == RepeatEach(embeddings_flat, N)
        cos_diff == [r \in 1..Len(embeddings_expand) |->
                        cosine_similarity(embeddings_expand[r], centroids_expand[r])]
    IN  [j \in 1..N |-> [i \in 1..num_utterances |-> [k \in 1..Len(centroids) |->
            PlusEps(IF k = j THEN cos_same[(j - 1) * num_utterances + i]
                    ELSE cos_diff[((j - 1) * num_utterances + (i - 1))
                                      * Len(centroids) + k])]]]

\* ----------------------------------------------------------------- losses
\* 1 / (1 + exp(-x)) in thousandths, for the integer scores of the model
Sigmoid(x) ==
    CASE x <= -3 -> 47
      [] x = -2 -> 119
      [] x = -1 -> 269
      [] x = 0 -> 500
      [] x = 1 -> 731
      [] x = 2 -> 881
      [] x >= 3 -> 953

RECURSIVE IntSum(_)
IntSum(s) == IF s = <<>> THEN 0 ELSE s[1] + IntSum(Tail(s))

\* torch.max(..., dim)[0] of one row
MaxOfSeq(s) == CHOOSE x \in {s[k] : k \in 1..Len(s)} : \A k \in 1..Len(s) : s[k] <= x

ContrastLossOf(similarity, sigmoid) ==
    LET same_index == 1..Len(similarity)
        M == Len(similarity[1])
        loss_1 == IntSum([n \in same_index |->
                     IntSum([m \in 1..M |-> 1000 - sigmoid[n][m][n]])])
        zeroed == [n \in same_index |-> [m \in 1..M |->
                     [k \in 1..Len(sigmoid[n][m]) |->
                         IF k = n THEN 0 ELSE sigmoid[n][m][k]]]]
        loss_2 == IntSum([n \in same_index |->
                     IntSum([m \in 1..M |-> MaxOfSeq(zeroed[n][m])])])
    IN  [val |-> <<loss_1 + loss_2>>, similarity |-> similarity]

\* mutant: the true-speaker entries are not zeroed before the max
get_contrast_loss_no_zeroing(similarity) ==
    LET same_index == 1..Len(similarity)
        M == Len(similarity[1])
    IN  [val |-> << IntSum([n \in same_index |->
                        IntSum([m \in 1..M |-> 1000 - Sigmoid(similarity[n][m][n])])])
                    + IntSum([n \in same_index |->
                        IntSum([m \in 1..M |->
                            MaxOfSeq([k \in 1..Len(similarity[n][m]) |->
                                         Sigmoid(similarity[n][m][k])])])]) >>,
         similarity |-> similarity]

\* mutant: the zeroing of line 113 is applied to the argument itself
get_contrast_loss_zeroes_argument(similarity) ==
    [val |-> ContrastLossOf(similarity,
                [n \in 1..Len(similarity) |-> [m \in 1..Len(similarity[n]) |->
                    [k \in 1..Len(similarity[n][m]) |->
                        Sigmoid(similarity[n][m][k])]]]).val,
     similarity |-> [n \in 1..Len(similarity) |-> [m \in 1..Len(similarity[n]) |->
                       [k \in 1..Len(similarity[n][m]) |->
                           IF k = n THEN 0 ELSE similarity[n][m][k]]]]]

\* `sigmoid` is a new tensor (line 110); lines 112-114 read and write it, not
\* the argument.  `similarity` is the value the argument holds after the call.
get_contrast_loss(similarity) ==
    ContrastLossOf(similarity,
        [n \in 1..Len(similarity) |-> [m \in 1..Len(similarity[n]) |->
            [k \in 1..Len(similarity[n][m]) |-> Sigmoid(similarity[n][m][k])]]])

\* sum_k exp(row[k]) kept exact: the number of terms e^x for every score x
ExpSum(row) == [x \in Scores |-> Cardinality({k \in 1..Len(row) : row[k] = x})]

\* The loss kept exact: <<L, T>> stands for
\* sum over the bag L of log(term + 1e-6), minus T.
get_softmax_loss(similarity) ==
    LET same_index == 1..Len(similarity)
        M == Len(similarity[1])
        cells == same_index \X (1..M)
        terms == {ExpSum(similarity[c[1]][c[2]]) : c \in cells}
    IN  [val |-> << [t \in terms |->
                       Cardinality({c \in cells : ExpSum(similarity[c[1]][c[2]]) = t})],
                    IntSum([n \in same_index |->
                       IntSum([m \in 1..M |-> similarity[n][m][n]])]) >>,
         similarity |-> similarity]

\* ------------------------------------------------------ silence trimming
\* The waveform is kept per detector window: wav[t] names the t-th window of
\* samples_per_window samples (line 348 drops the samples after the last
\* whole window, line 374 repeats the mask over the samples of a window).
\* voice_flags[t] is 1 when the detector called window t speech, else 0.

\* np.cumsum
RECURSIVE cumsum(_, _)
cumsum(a, i) == IF i = 0 THEN 0 ELSE a[i] + cumsum(a, i - 1)

\* `sums` is the source's `ret`: the sums of `width` consecutive flags of the
\* zero-padded array; entry t of the result is <<sum, width>>, the average
moving_average(array, width) ==
    LET before == (width - 1) \div 2
        n == Len(array)
        array_padded == [i \in 1..(before + n + width \div 2) |->
                            IF i <= before \/ i > before + n THEN 0
                            ELSE array[i - before]]
        sums == [i \in 1..Len(array_padded) |->
                   IF i > width
                   THEN cumsum(array_padded, i) - cumsum(array_padded, i - width)
                   ELSE cumsum(array_padded, i)]
    IN  [t \in 1..n |-> <<sums[t + width - 1], width>>]

\* np.round of k / w in [0, 1]: to the nearest integer, a half to the even 0
round(q) == IF 2 * q[1] > q[2] THEN 1 ELSE 0

\* scipy's binary_dilation by np.ones(size), origin 0, border value 0: a true
\* element sets the size \div 2 elements before it and the (size - 1) \div 2
\* elements after it
binary_dilation(mask, size) ==
    [i \in 1..Len(mask) |->
        \E j \in 1..Len(mask) :
            /\ mask[j]
            /\ j - size \div 2 <= i
            /\ i <= j + (size - 1) \div 2]

\* wav[audio_mask == True]
RECURSIVE Masked(_, _, _)
Masked(wav, audio_mask, n) ==
    IF n = 0 THEN <<>>
    ELSE IF audio_mask[n] THEN Append(Masked(wav, audio_mask, n - 1), wav[n])
    ELSE Masked(wav, audio_mask, n - 1)

\* mutant: the voiced regions are dilated by np.ones(vad_max_silence_length + 2)
trim_long_silences_wide_dilation(wav, voice_flags, vad_moving_average_width, vad_max_silence_length) ==
    LET average == moving_average(voice_flags, vad_moving_average_width)
        audio_mask == [t \in 1..Len(wav) |-> round(average[t]) # 0]
    IN  Masked(wav, binary_dilation(audio_mask, vad_max_silence_length + 2), Len(wav))

trim_long_silences(wav, voice_flags, vad_moving_average_width, vad_max_silence_length) ==
    LET average == moving_average(voice_flags, vad_moving_average_width)
        audio_mask == [t \in 1..Len(wav) |-> round(average[t]) # 0]
    IN  Masked(wav, binary_dilation(audio_mask, vad_max_silence_length + 1), Len(wav))

\* ------------------------------------------------------------ the caller
Cells(s) == s[1] * s[2] * s[3]

Shapes == {s \in (1..MaxN) \X (1..MaxM) \X (1..MaxD) : Cells(s) <= MaxCells}

\* the shapes (N, M) of the similarity tensors (N, M, N)
ScoreShapes == {s \in (1..MaxN) \X (1..MaxM) : s[1] * s[2] * s[1] <= MaxCells}

Tensors(N, M, D, V) == [1..N -> [1..M -> [1..D -> V]]]

Reals(V) == {<<v, 1>> : v \in V}

EmptyHeap ==
    [embedding |-> None, evaluation |-> None, similarity |-> None,
     diagonal |-> None, result |-> None]

NoCall ==
    /\ ret = "none"
    /\ err = "none"
    /\ last = "init"
    /\ calls = 0

\* the caller holds one embedding tensor of shape (N, M, D)
Init ==
    /\ \E s \in Shapes : \E t \in Tensors(s[1], s[2], s[3], Reals(Vals)) :
           heap = [EmptyHeap EXCEPT !.embedding = t]
    /\ NoCall

\* ret = get_similarity(embedding)
CallGetSimilarity ==
    /\ calls < MaxCalls
    /\ \E r \in {get_similarity(heap.embedding)} :
           /\ heap' = [heap EXCEPT !.embedding = r.embedding, !.result = r.val]
           /\ ret' = IF r.err = "none" THEN "result" ELSE "none"
           /\ err' = r.err
    /\ last' = "get_similarity"
    /\ calls' = calls + 1

Next == CallGetSimilarity

Spec == Init /\ [][Next]_vars

\* ret = calculate_centroid_exclude_self(embedding)
CallCalculateCentroidExcludeSelf ==
    /\ heap' = [heap EXCEPT !.result = calculate_centroid_exclude_self(heap.embedding)]
    /\ ret' = "result"
    /\ err' = "none"
    /\ last' = "calculate_centroid_exclude_self"
    /\ UNCHANGED calls

NextCentroid == CallCalculateCentroidExcludeSelf

SpecCentroid == Init /\ [][NextCentroid]_vars

\* the caller holds the two tensors get_similarity passes to combine_similarity
InitCombine ==
    /\ \E s \in Shapes : \E t \in Tensors(s[1], s[2], s[3], Reals(Vals)) :
           heap = [EmptyHeap EXCEPT
                     !.similarity =
                         calculate_similarity(t, calculate_centroid_include_self(t)).val,
                     !.diagonal =
                         calculate_similarity_j_equal_k(t,
                             calculate_centroid_exclude_self(t)).val]
    /\ NoCall

\* ret = combine_similarity(similarity, diagonal)
CallCombineSimilarity ==
    /\ \E r \in {combine_similarity(heap.similarity, heap.diagonal)} :
           /\ heap' = [heap EXCEPT !.similarity = r.similarity]
           /\ ret' = IF r.aliased THEN "similarity" ELSE "result"
    /\ err' = "none"
    /\ last' = "combine_similarity"
    /\ UNCHANGED calls

NextCombine == CallCombineSimilarity

SpecCombine == InitCombine /\ [][NextCombine]_vars

\* the caller holds one tensor of similarity scores of shape (N, M, N)
InitLoss ==
    /\ \E s \in ScoreShapes : \E t \in Tensors(s[1], s[2], s[1], Scores) :
               heap = [EmptyHeap EXCEPT !.similarity = t]
    /\ NoCall

\* ret = get_contrast_loss(similarity)
CallGetContrastLoss ==
    /\ \E r \in {get_contrast_loss(heap.similarity)} :
           heap' = [heap EXCEPT !.similarity = r.similarity, !.result = r.val]
    /\ ret' = "result"
    /\ err' = "none"
    /\ last' = "get_contrast_loss"
    /\ UNCHANGED calls

\* ret = get_softmax_loss(similarity)
CallGetSoftmaxLoss ==
    /\ \E r \in {get_softmax_loss(heap.similarity)} :
           heap' = [heap EXCEPT !.similarity = r.similarity, !.result = r.val]
    /\ ret' = "result"
    /\ err' = "none"
    /\ last' = "get_softmax_loss"
    /\ UNCHANGED calls

NextLoss == CallGetContrastLoss \/ CallGetSoftmaxLoss

SpecLoss == InitLoss /\ [][NextLoss]_vars

\* the caller holds an enrollment tensor (heap.embedding) and an evaluation
\* tensor, of independent shapes
ShapePairs ==
    {p \in Shapes \X Shapes : Cells(p[1]) + Cells(p[2]) <= MaxCells}

InitEva ==
    /\ \E p \in ShapePairs :
           \E t1 \in Tensors(p[1][1], p[1][2], p[1][3], Reals(EvaVals)),
              t2 \in Tensors(p[2][1], p[2][2], p[2][3], Reals(EvaVals)) :
               heap = [EmptyHeap EXCEPT !.embedding = t1, !.evaluation = t2]
    /\ NoCall

Returned(r) ==
    /\ heap' = [heap EXCEPT !.result = r.val]
    /\ ret' = IF r.err = "none" THEN "result" ELSE "none"
    /\ err' = r.err

\* ret = get_similarity_eva(embedding, evaluation)
CallGetSimilarityEva ==
    /\ \E r \in {get_similarity_eva(heap.embedding, heap.evaluation)} : Returned(r)
    /\ last' = "get_similarity_eva"
    /\ UNCHANGED calls

\* ret = calculate_similarity_j_equal_k(embedding, evaluation)
CallCalculateSimilarityJEqualK ==
    /\ \E r \in {calculate_similarity_j_equal_k(heap.embedding, heap.evaluation)} :
           Returned(r)
    /\ last' = "calculate_similarity_j_equal_k"
    /\ UNCHANGED calls

NextEva == CallGetSimilarityEva \/ CallCalculateSimilarityJEqualK

SpecEva == InitEva /\ [][NextEva]_vars

\* the caller holds a waveform of whole windows; the detector's flags and the
\* two parameters of params.py are inputs
InitTrim ==
    /\ \E n \in 1..MaxWindows : \E f \in [1..n -> {0, 1}] :
       \E w \in 1..MaxWidth : \E g \in 0..MaxSilence :
           heap = [wav |-> [t \in 1..n |-> t],
                   voice_flags |-> f,
                   vad_moving_average_width |-> w,
                   vad_max_silence_length |-> g,
                   result |-> None]
    /\ NoCall

\* ret = trim_long_silences(wav)
CallTrimLongSilences ==
    /\ heap' = [heap EXCEPT !.result =
                   trim_long_silences(heap.wav, heap.voice_flags,
                                      heap.vad_moving_average_width,
                                      heap.vad_max_silence_length)]
    /\ ret' = "result"
    /\ err' = "none"
    /\ last' = "trim_long_silences"
    /\ UNCHANGED calls

NextTrim == CallTrimLongSilences

SpecTrim == InitTrim /\ [][NextTrim]_vars

\* ret = get_cossim(embedding, get_centroids(embedding))
CallGetCossim ==
    /\ heap' = [heap EXCEPT !.result =
                   get_cossim(heap.embedding, get_centroids(heap.embedding))]
    /\ ret' = "result"
    /\ err' = "none"
    /\ last' = "get_cossim"
    /\ UNCHANGED calls

NextCossim == CallGetCossim

SpecCossim == Init /\ [][NextCossim]_vars

\* ============================================================== claims
\* Reference values, computed from the claims' words and not by the code's
\* formulas.
NofE == Len(heap.embedding)

MofE == Len(heap.embedding[1])

DofE == Len(heap.embedding[1][1])

\* the mean of speaker k's embeddings, all of them
MeanOfSpeaker(e, k) ==
    [d \in 1..Len(e[k][1]) |->
        RDivInt(RSum([m \in 1..Len(e[k]) |-> e[k][m][d]]), Len(e[k]))]

\* the mean of the other M-1 embeddings of speaker n, embedding m left out
MeanOfOthers(e, n, m) ==
    [d \in 1..Len(e[n][1]) |->
        RDivInt(RSum([i \in 1..(Len(e[n]) - 1) |->
                        e[n][IF i < m THEN i ELSE i + 1][d]]),
                Len(e[n]) - 1)]

\* C1: for an embedding of shape (N, M, D) with N >= 2 and M >= 2, entry
\* [j,i,k] of get_similarity's result is the cosine of embedding[j,i] with the
\* leave-one-out centroid of speaker j at utterance i when k = j, and with
\* the include-self centroid of speaker k when k # j.
C1_SimilarityEntries ==
    (last = "get_similarity" /\ NofE >= 2 /\ MofE >= 2) =>
        /\ err = "none"
        /\ ret = "result"
        /\ Len(heap.result) = NofE
        /\ \A j \in 1..NofE :
              /\ Len(heap.result[j]) = MofE
              /\ \A i \in 1..MofE :
                    /\ Len(heap.result[j][i]) = NofE
                    /\ \A k \in 1..NofE :
                          heap.result[j][i][k] =
                              IF k = j
                              THEN cosine_similarity(heap.embedding[j][i],
                                       MeanOfOthers(heap.embedding, j, i))
                              ELSE cosine_similarity(heap.embedding[j][i],
                                       MeanOfSpeaker(heap.embedding, k))

\* get_similarity has returned for N >= 2, M >= 2, and a same-speaker entry
\* differs from the value the include-self centroid would give
C1_Witness ==
    /\ last = "get_similarity"
    /\ NofE >= 2
    /\ MofE >= 2
    /\ \E j \in 1..NofE : \E i \in 1..MofE :
          /\ heap.result[j][i][j] #
                 cosine_similarity(heap.embedding[j][i],
                                   MeanOfSpeaker(heap.embedding, j))
          /\ \E k \in 1..NofE : k # j /\ heap.result[j][i][k][1] # 0

\* C2: the result R of combine_similarity(S, d) has R[n,m,k] = S[n,m,k] (the
\* value before the call) for k # n and R[n,m,n] = d[n,m].
C2_CombineEntries ==
    [][last' = "combine_similarity" =>
          /\ Len(heap'[ret']) = Len(heap.similarity)
          /\ \A n \in 1..Len(heap.similarity) :
                /\ Len(heap'[ret'][n]) = Len(heap.similarity[n])
                /\ \A m \in 1..Len(heap.similarity[n]) :
                      /\ Len(heap'[ret'][n][m]) = Len(heap.similarity[n][m])
                      /\ \A k \in 1..Len(heap.similarity[n][m]) :
                            heap'[ret'][n][m][k] =
                                IF k = n THEN heap.diagonal[n][m]
                                ELSE heap.similarity[n][m][k]]_vars

\* combine_similarity has returned a tensor with N >= 2 and M >= 2 in which
\* the written entries and the kept entries are told apart
C2_Witness ==
    /\ last = "combine_similarity"
    /\ ret = "similarity"
    /\ Len(heap.similarity) >= 2
    /\ Len(heap.similarity[1]) >= 2
    /\ \E n \in 1..Len(heap.similarity) : \E m \in 1..Len(heap.similarity[n]) :
          /\ heap.similarity[n][m][n] = heap.diagonal[n][m]
          /\ \E k \in 1..Len(heap.similarity[n][m]) :
                k # n /\ heap.similarity[n][m][k] # heap.diagonal[n][m]

\* C3: combine_similarity returns a new tensor and leaves the tensor passed
\* as `similarity` holding the values it held before the call.
C3_CombineDoesNotMutate ==
    [][last' = "combine_similarity" =>
          /\ heap'.similarity = heap.similarity
          /\ ret' # "similarity"]_vars

\* C4: for M > 1, calculate_centroid_exclude_self returns a tensor of shape
\* (N, M, D) whose entry (n, m) is the mean of the other M-1 embeddings of
\* speaker n.
C4_ExcludeSelfIsMeanOfOthers ==
    (last = "calculate_centroid_exclude_self" /\ MofE > 1) =>
        /\ ret = "result"
        /\ Len(heap.result) = NofE
        /\ \A n \in 1..NofE :
              /\ Len(heap.result[n]) = MofE
              /\ \A m \in 1..MofE :
                    heap.result[n][m] = MeanOfOthers(heap.embedding, n, m)

\* the call has returned for N >= 2 and M = 3, with a centroid that is
\* neither zero nor the speaker's full mean nor another speaker's centroid
C4_Witness ==
    /\ last = "calculate_centroid_exclude_self"
    /\ NofE >= 2
    /\ MofE >= 3
    /\ \E m \in 1..MofE :
          /\ heap.result[1][m] # MeanOfSpeaker(heap.embedding, 1)
          /\ heap.result[1][m] # MeanOfOthers(heap.embedding, 2, m)
          /\ \E d \in 1..DofE : heap.result[1][m][d][2] = 2

\* the largest sigmoid among the impostor speakers k # n of row (n, m)
ImpostorMax(S, n, m) ==
    LET scores == {Sigmoid(S[n][m][k]) : k \in (1..Len(S[n][m])) \ {n}}
    IN  CHOOSE x \in scores : \A y \in scores : y <= x

\* C5: for a similarity tensor S with N >= 2, get_contrast_loss returns the
\* sum over (n,m) of 1 - sigmoid(S[n,m,n]) plus the sum over (n,m) of the
\* maximum of sigmoid(S[n,m,k]) over the impostor speakers k # n only.
C5_ContrastLossValue ==
    (last = "get_contrast_loss" /\ Len(heap.similarity) >= 2) =>
        heap.result =
            << IntSum([n \in 1..Len(heap.similarity) |->
                   IntSum([m \in 1..Len(heap.similarity[n]) |->
                       (1000 - Sigmoid(heap.similarity[n][m][n]))
                       + ImpostorMax(heap.similarity, n, m)])]) >>

\* get_contrast_loss has returned for N >= 2 on a tensor in which a
\* true-speaker score is strictly the largest of its row
C5_Witness ==
    /\ last = "get_contrast_loss"
    /\ Len(heap.similarity) >= 2
    /\ \E n \in 1..Len(heap.similarity) : \E m \in 1..Len(heap.similarity[n]) :
          \A k \in 1..Len(heap.similarity[n][m]) :
              k # n => heap.similarity[n][m][k] < heap.similarity[n][m][n]

\* C6: calculate_centroid_exclude_self on an embedding with M = 1 fails with
\* an error and produces no result tensor.
C6_ExcludeSelfRaisesWhenMIsOne ==
    (last = "calculate_centroid_exclude_self" /\ MofE = 1) =>
        /\ err # "none"
        /\ ret = "none"
        /\ heap.result = None

Raised ==
    /\ err = "AssertionError"
    /\ ret = "none"
    /\ heap.result = None

\* C7: when the embeddings and the centroids passed to calculate_similarity
\* (through get_similarity_eva) disagree on N or D, or the two tensors passed
\* to calculate_similarity_j_equal_k disagree on N, M or D, the call raises
\* and returns no tensor.
C7_ShapeMismatchRaises ==
    /\ (/\ last = "get_similarity_eva"
        /\ \/ Len(heap.embedding) # Len(heap.evaluation)
           \/ Len(heap.embedding[1][1]) # Len(heap.evaluation[1][1]))
       => Raised
    /\ (/\ last = "calculate_similarity_j_equal_k"
        /\ \/ Len(heap.embedding) # Len(heap.evaluation)
           \/ Len(heap.embedding[1]) # Len(heap.evaluation[1])
           \/ Len(heap.embedding[1][1]) # Len(heap.evaluation[1][1]))
       => Raised

\* get_similarity_eva has raised on tensors that agree on N and disagree on D
C7_Witness ==
    /\ last = "get_similarity_eva"
    /\ Len(heap.embedding) = Len(heap.evaluation)
    /\ Len(heap.embedding[1][1]) # Len(heap.evaluation[1][1])
    /\ Raised

\* C8: for enrollment (N, M1, D) and evaluation (N, M2, D), get_similarity_eva
\* returns a tensor of shape (N, M2, N) whose every entry [j,i,k], k = j
\* included, is the cosine of evaluation[j,i] with the include-self mean of
\* speaker k's enrollment embeddings.
C8_EvaEntries ==
    (/\ last = "get_similarity_eva"
     /\ Len(heap.embedding) = Len(heap.evaluation)
     /\ Len(heap.embedding[1][1]) = Len(heap.evaluation[1][1])) =>
        /\ err = "none"
        /\ ret = "result"
        /\ Len(heap.result) = Len(heap.evaluation)
        /\ \A j \in 1..Len(heap.evaluation) :
              /\ Len(heap.result[j]) = Len(heap.evaluation[j])
              /\ \A i \in 1..Len(heap.evaluation[j]) :
                    /\ Len(heap.result[j][i]) = Len(heap.embedding)
                    /\ \A k \in 1..Len(heap.embedding) :
                          heap.result[j][i][k] =
                              cosine_similarity(heap.evaluation[j][i],
                                  MeanOfSpeaker(heap.embedding, k))

\* get_similarity_eva has returned for N >= 2 and M1 # M2, and a same-speaker
\* entry differs from the value a centroid of evaluation embeddings gives
C8_Witness ==
    /\ last = "get_similarity_eva"
    /\ err = "none"
    /\ Len(heap.embedding) >= 2
    /\ Len(heap.embedding[1]) # Len(heap.evaluation[1])
    /\ \E j \in 1..Len(heap.evaluation) : \E i \in 1..Len(heap.evaluation[j]) :
          heap.result[j][i][j] #
              cosine_similarity(heap.evaluation[j][i],
                                MeanOfSpeaker(heap.evaluation, j))

C10_LossesLeaveSimilarity ==
    [][last' \in {"get_contrast_loss", "get_softmax_loss"} =>
          heap'.similarity = heap.similarity]_vars

\* get_contrast_loss has returned on a tensor whose true-speaker entries are
\* not all zero, so that zeroing them would show
C10_Witness ==
    /\ last = "get_contrast_loss"
    /\ ret = "result"
    /\ \E n \in 1..Len(heap.similarity) : \E m \in 1..Len(heap.similarity[n]) :
          heap.similarity[n][m][n] # 0

\* an output position p starts a run of more than `len` consecutive output
\* windows that are all in `silent`
LongRun(out, silent, len, p) ==
    /\ p + len <= Len(out)
    /\ \A q \in p..(p + len) : out[q] \in silent

\* the windows the detector classified as non-speech
NonSpeech == {t \in 1..Len(heap.wav) : heap.voice_flags[t] = 0}

\* the windows around which at most half of the vad_moving_average_width
\* flags (those from (width-1) div 2 before to width div 2 after) are speech
SmoothedNonSpeech ==
    {t \in 1..Len(heap.wav) :
        2 * Cardinality({u \in 1..Len(heap.wav) :
                            /\ t - (heap.vad_moving_average_width - 1) \div 2 <= u
                            /\ u <= t + heap.vad_moving_average_width \div 2
                            /\ heap.voice_flags[u] = 1})
          <= heap.vad_moving_average_width}

\* C11 as stated: the waveform trim_long_silences returns contains no run of
\* more than vad_max_silence_length consecutive windows that the detector
\* classified as non-speech, whatever the two parameters.
C11_NoLongRunOfNonSpeech ==
    last = "trim_long_silences" =>
        \A p \in 1..Len(heap.result) :
            ~LongRun(heap.result, NonSpeech, heap.vad_max_silence_length, p)

\* C11 as amended: the waveform trim_long_silences returns contains no run of
\* more than vad_max_silence_length consecutive windows that the smoothed
\* detection (the rounded moving average of the flags) classified as
\* non-speech, whatever the two parameters.
C11_NoLongRunOfSmoothedNonSpeech ==
    last = "trim_long_silences" =>
        /\ \A p \in 1..Len(heap.result) :
              ~LongRun(heap.result, SmoothedNonSpeech, heap.vad_max_silence_length, p)
        /\ \A p \in 1..Len(heap.result) :
              /\ heap.result[p] \in 1..Len(heap.wav)
              /\ p > 1 => heap.result[p - 1] < heap.result[p]

\* trim_long_silences has dropped windows from the middle of a waveform and
\* kept a run of exactly vad_max_silence_length >= 2 smoothed non-speech
\* windows, with a moving average wider than one window
C11_Witness ==
    /\ last = "trim_long_silences"
    /\ heap.vad_moving_average_width >= 3
    /\ heap.vad_max_silence_length >= 2
    /\ \E p \in 2..Len(heap.result) :
          /\ heap.result[p] > heap.result[p - 1] + 1
          /\ \E q \in 1..Len(heap.result) :
                /\ LongRun(heap.result, SmoothedNonSpeech,
                           heap.vad_max_silence_length - 1, q)
                /\ q <= p
                /\ p <= q + heap.vad_max_silence_length - 1

\* C12: get_cossim(embeddings, get_centroids(embeddings)) is get_similarity(
\* embeddings) plus 1e-6 at every index [j, i, k]: the flatten / repeat / view
\* mapping pairs utterance i of speaker j with the centroid of speaker k at
\* [j, i, k], and with speaker j's leave-one-out centroid at [j, i, j].
C12_CossimIsSimilarityPlusEps ==
    last = "get_cossim" =>
        \A similarity \in {get_similarity(heap.embedding).val} :
            /\ Len(heap.result) = NofE
            /\ \A j \in 1..NofE :
                  /\ Len(heap.result[j]) = MofE
                  /\ \A i \in 1..MofE :
                        /\ Len(heap.result[j][i]) = NofE
                        /\ \A k \in 1..NofE :
                              /\ heap.result[j][i][k] = PlusEps(similarity[j][i][k])
                              /\ heap.result[j][i][k].cos =
                                    cosine_similarity(heap.embedding[j][i],
                                        IF k = j THEN MeanOfOthers(heap.embedding, j, i)
                                        ELSE MeanOfSpeaker(heap.embedding, k))

\* get_cossim has returned for two speakers with two utterances each, where
\* the cosines are numbers and differ between the two utterances of a speaker,
\* between the two speakers, and between an utterance's own and other centroid
C12_Witness ==
    /\ last = "get_cossim"
    /\ NofE >= 2
    /\ MofE >= 2
    /\ \A j \in 1..NofE : \A i \in 1..MofE : \A k \in 1..NofE :
          heap.result[j][i][k].eps = 1
    /\ heap.result[1][1][2] # heap.result[1][2][2]
    /\ heap.result[1][1][2] # heap.result[2][1][2]
    /\ heap.result[1][1][2] # heap.result[1][1][1]
    /\ heap.result[1][2][1] # heap.result[2][1][1]

====
